---- MODULE Spec2Model ----
(***************************************************************************)
(* Beverley bit crusher (src/modules/beverley/src/dsp.rs, lib.rs).         *)
(*                                                                         *)
(* Every f32 of the program is modelled as an IEEE-754 binary32 value with *)
(* round-to-nearest-even arithmetic.  A value is held as one integer: the  *)
(* bit pattern of its magnitude, negated when the value is negative, so    *)
(* the order of the integers is the order of the floats.  -0.0 is folded   *)
(* into 0 and every overflow saturates at F32Inf.                          *)
(***************************************************************************)
EXTENDS Integers, Sequences, FiniteSets, TLC

\* ------------------------------------------------------------ binary32
TwoP23 == 8388608
TwoP12 == 4096
F32Inf == 2139095040
I32Max == 2147483647

Pow2(n) == 2 ^ n

RECURSIVE BitLen(_)
BitLen(n) == IF n = 0 THEN 0
             ELSE IF n >= 65536 THEN 16 + BitLen(n \div 65536)
             ELSE IF n >= 256 THEN 8 + BitLen(n \div 256)
             ELSE IF n >= 16 THEN 4 + BitLen(n \div 16)
             ELSE 1 + BitLen(n \div 2)

Mag(x) == IF x < 0 THEN -x ELSE x
Sgn(x) == IF x < 0 THEN -1 ELSE 1
\* value of magnitude bits b = Mant(b) * 2^Expo(b)
Mant(b) == IF b < TwoP23 THEN b ELSE (b % TwoP23) + TwoP23
Expo(b) == IF b < TwoP23 THEN -149 ELSE (b \div TwoP23) - 150

\* bits of q * 2^e, q < 2^24 + 1 and (q >= 2^23 or e = -149)
F32Encode(s, q, e) ==
    IF e + 149 >= 254 THEN s * F32Inf
    ELSE IF (e + 149) * TwoP23 + q >= F32Inf THEN s * F32Inf
    ELSE s * ((e + 149) * TwoP23 + q)

\* nearest binary32 (ties to even) of s * (M + S*eps) * 2^E, 0 < eps < 1
RoundNearest(s, q, r, half, e, S) ==
    F32Encode(s, IF r > half \/ (r = half /\ (S = 1 \/ q % 2 = 1))
                 THEN q + 1 ELSE q, e)

\* sh: how many low bits of M do not fit
RoundDropping(s, M, E, S, sh) ==
    IF sh <= 0 THEN F32Encode(s, M * Pow2(-sh), E + sh)
    ELSE IF sh > 30 THEN 0
    ELSE RoundNearest(s, M \div Pow2(sh), M % Pow2(sh), Pow2(sh - 1), E + sh, S)

F32Round(s, M, E, S) ==
    IF M = 0 THEN 0
    ELSE RoundDropping(s, M, E, S,
                       IF BitLen(M) - 24 >= -149 - E
                       THEN BitLen(M) - 24 ELSE -149 - E)

\* the 48-bit product as hi * 2^24 + lo, k bits of it dropped
MulShifted(s, e, hi, lo, k) ==
    F32Round(s, hi * Pow2(24 - k) + lo \div Pow2(k), e + k,
             IF lo % Pow2(k) # 0 THEN 1 ELSE 0)

MulProduct(s, e, hi, lo) ==
    MulShifted(s, e, hi, lo, IF hi < 64 THEN 0 ELSE BitLen(hi) - 6)

MulLimbs(s, e, a1, a0, b1, b0) ==
    MulProduct(s, e,
               a1 * b1 + (a1 * b0 + a0 * b1) \div TwoP12,
               ((a1 * b0 + a0 * b1) % TwoP12) * TwoP12 + a0 * b0)

F32Mul(a, b) ==
    IF a = 0 \/ b = 0 THEN 0
    ELSE IF a = F32Inf \/ a = -F32Inf \/ b = F32Inf \/ b = -F32Inf
    THEN Sgn(a) * Sgn(b) * F32Inf
    ELSE MulLimbs(Sgn(a) * Sgn(b), Expo(Mag(a)) + Expo(Mag(b)),
                  Mant(Mag(a)) \div TwoP12, Mant(Mag(a)) % TwoP12,
                  Mant(Mag(b)) \div TwoP12, Mant(Mag(b)) % TwoP12)

\* mb, low: significands with three guard bits; st: sticky bit of low
AddTotal(big, same, mb, low, st) ==
    F32Round(Sgn(big), IF same THEN mb + low ELSE mb - low - st,
             Expo(Mag(big)) - 3, st)

AddAligned(big, same, ms, sh) ==
    AddTotal(big, same, Mant(Mag(big)) * 8, ms \div Pow2(sh),
             IF ms % Pow2(sh) # 0 THEN 1 ELSE 0)

AddOrdered(big, sml) ==
    AddAligned(big, Sgn(big) = Sgn(sml), Mant(Mag(sml)) * 8,
               IF Expo(Mag(big)) - Expo(Mag(sml)) > 27 THEN 27
               ELSE Expo(Mag(big)) - Expo(Mag(sml)))

F32Add(a, b) ==
    IF a = 0 THEN b
    ELSE IF b = 0 THEN a
    ELSE IF a = F32Inf \/ a = -F32Inf THEN a
    ELSE IF b = F32Inf \/ b = -F32Inf THEN b
    ELSE AddOrdered(IF Mag(a) >= Mag(b) THEN a ELSE b,
                    IF Mag(a) >= Mag(b) THEN b ELSE a)

F32Neg(a) == -a
F32Sub(a, b) == F32Add(a, F32Neg(b))

RECURSIVE DivBits(_, _, _, _)
DivBits(r, d, n, q) ==
    IF n = 0 THEN <<q, r>>
    ELSE IF 2 * r >= d THEN DivBits(2 * r - d, d, n - 1, 2 * q + 1)
    ELSE DivBits(2 * r, d, n - 1, 2 * q)

DivQuotient(s, qr, e) == F32Round(s, qr[1], e, IF qr[2] # 0 THEN 1 ELSE 0)

DivSignificands(s, ma, mb, e) ==
    DivQuotient(s, DivBits(ma % mb, mb, 26, ma \div mb), e)

DivNormal(a, b, ka, kb) ==
    DivSignificands(Sgn(a) * Sgn(b),
                    Mant(Mag(a)) * Pow2(ka), Mant(Mag(b)) * Pow2(kb),
                    (Expo(Mag(a)) - ka) - (Expo(Mag(b)) - kb) - 26)

F32Div(a, b) ==
    IF b = 0 THEN Sgn(a) * F32Inf
    ELSE IF a = F32Inf \/ a = -F32Inf THEN Sgn(a) * Sgn(b) * F32Inf
    ELSE IF b = F32Inf \/ b = -F32Inf THEN 0
    ELSE IF a = 0 THEN 0
    ELSE DivNormal(a, b, 24 - BitLen(Mant(Mag(a))), 24 - BitLen(Mant(Mag(b))))

\* i32 as f32
F32FromInt(n) == F32Round(Sgn(n), Mag(n), 0, 0)

\* x.floor() as i32, x.ceil() as i32 (the cast saturates)
FloorMag(b) ==
    IF Expo(b) >= 8 THEN I32Max
    ELSE IF Expo(b) >= 0 THEN Mant(b) * Pow2(Expo(b))
    ELSE IF Expo(b) < -30 THEN 0
    ELSE Mant(b) \div Pow2(-Expo(b))
CeilMag(b) ==
    IF Expo(b) >= 8 THEN I32Max
    ELSE IF Expo(b) >= 0 THEN Mant(b) * Pow2(Expo(b))
    ELSE IF Expo(b) < -30 THEN (IF Mant(b) = 0 THEN 0 ELSE 1)
    ELSE (Mant(b) + Pow2(-Expo(b)) - 1) \div Pow2(-Expo(b))
F32Floor(x) == IF x >= 0 THEN FloorMag(x) ELSE -CeilMag(-x)
F32Ceil(x) == IF x >= 0 THEN CeilMag(x) ELSE -FloorMag(-x)


\* non-negative x only; nearest binary32 of the square root
RECURSIVE SqrtBits(_, _, _, _)
SqrtBits(rad, n, rem, root) ==
    IF n = 0 THEN <<root, rem>>
    ELSE LET pair == (rad \div Pow2(2 * (n - 1))) % 4
             r4   == rem * 4 + pair
             t    == root * 4 + 1
         IN  IF r4 >= t THEN SqrtBits(rad, n - 1, r4 - t, root * 2 + 1)
             ELSE SqrtBits(rad, n - 1, r4, root * 2)
RECURSIVE SqrtTail(_, _, _)
SqrtTail(n, rem, root) ==
    IF n = 0 THEN <<root, rem>>
    ELSE LET r4 == rem * 4
             t  == root * 4 + 1
         IN  IF r4 >= t THEN SqrtTail(n - 1, r4 - t, root * 2 + 1)
             ELSE SqrtTail(n - 1, r4, root * 2)
SqrtRoot(tl, e) ==
    F32Round(1, tl[1], (e \div 2) - 13, IF tl[2] # 0 THEN 1 ELSE 0)

SqrtDigits(hd, e) == SqrtRoot(SqrtTail(13, hd[2], hd[1]), e)

\* m * 2^e0 with m of 24 bits, brought to an even exponent
SqrtEven(m, e0) ==
    IF e0 % 2 = 0 THEN SqrtDigits(SqrtBits(m, 13, 0, 0), e0)
    ELSE SqrtDigits(SqrtBits(m * 2, 13, 0, 0), e0 - 1)

F32Sqrt(x) ==
    IF x = 0 \/ x = F32Inf THEN x
    ELSE SqrtEven(Mant(x) * Pow2(24 - BitLen(Mant(x))),
                  Expo(x) - (24 - BitLen(Mant(x))))

\* ------------------------------------------------------------ literals
Zero == 0
One == 1065353216
Half == 1056964608
Two == 1073741824
Three == 1077936128
Ten == 1092616192
Thousand == 1148846080
E == 1076754516
Hundredth == 1008981770
Twentieth == 1028443341
AttackMs == 1056964608
ReleaseMs == 1112014848
DefaultSampleRate == 1195081728
DefaultDepth == 1082130432
DefaultLevels == 15

\* f32::powf.  The cases the C standard fixes are exact; squares and square
\* roots are taken correctly rounded; base e is tabulated at the arguments
\* time_constant_to_coeff reaches for 44100 Hz and 48000 Hz.
Powf(x, y) ==
    IF y = Zero THEN One
    ELSE IF y = One THEN x
    ELSE IF x = One THEN One
    ELSE IF x = Zero /\ y > 0 THEN Zero
    ELSE IF y = Two THEN F32Mul(x, x)
    ELSE IF y = Half /\ x >= 0 THEN F32Sqrt(x)
    ELSE IF x = E /\ y = -1026206378 THEN 1064668529
    ELSE IF x = E /\ y = -970617870 THEN 1065346227
    ELSE IF x = E /\ y = -1027195511 THEN 1064609340
    ELSE IF x = E /\ y = -971883960 THEN 1065345609
    ELSE F32Inf

F32Abs(x) == Mag(x)
\* f32::signum: 1.0 for +0.0 and every positive value, -1.0 for negatives
F32Signum(x) == IF x >= 0 THEN One ELSE -One
F32Min(a, b) == IF a <= b THEN a ELSE b

\* ---------------------------------------------------------- BitCrusher
BitCrusher_set_levels(c, levels) ==
    [c EXCEPT !.levels = levels,
              !.step = F32Div(One, F32FromInt(levels)),
              !.step_reciprocal = F32FromInt(levels)]

BitCrusher_new ==
    BitCrusher_set_levels(
        [levels |-> 1, step |-> One, step_reciprocal |-> One,
         steepness |-> Zero, power |-> One], DefaultLevels)

BitCrusher_set_steepness(c, steepness, power) ==
    [c EXCEPT !.steepness = steepness, !.power = power]

sigmoidish(c, x) ==
    IF c.steepness = Zero THEN x
    ELSE LET smooth == F32Mul(F32Mul(x, x), F32Sub(Three, F32Mul(Two, x)))
         IN  IF c.steepness < Half
             THEN LET blend == F32Mul(c.steepness, Two)
                  IN  F32Add(F32Mul(F32Sub(One, blend), x), F32Mul(blend, smooth))
             ELSE LET step  == IF x >= Half THEN One ELSE Zero
                      blend == F32Mul(F32Sub(c.steepness, Half), Two)
                  IN  F32Add(F32Mul(F32Sub(One, blend), smooth), F32Mul(blend, step))

\* crush with the smoothed fraction not scaled back by step
crush_unscaled(c, input) ==
    LET scaled        == F32Mul(input, c.step_reciprocal)
        low           == F32Floor(scaled)
        high          == F32Ceil(scaled)
        quantized_low == F32Mul(F32FromInt(low), c.step)
    IN  IF low = high THEN quantized_low
        ELSE F32Add(quantized_low,
                    sigmoidish(c, F32Mul(F32Sub(input, quantized_low),
                                         c.step_reciprocal)))

crush(c, input) ==
    LET scaled        == F32Mul(input, c.step_reciprocal)
        low           == F32Floor(scaled)
        high          == F32Ceil(scaled)
        quantized_low == F32Mul(F32FromInt(low), c.step)
        interval_fraction ==
            F32Mul(F32Sub(input, quantized_low), c.step_reciprocal)
    IN  IF low = high THEN quantized_low
        ELSE F32Add(quantized_low,
                    F32Mul(sigmoidish(c, interval_fraction), c.step))

\* ------------------------------------------------------ ExponentialPeak
GATE_THRESHOLD == 1000593162
TARGET_LEVEL == 1065353216
GATE_THRESHOLD_RECIPROCAL == F32Div(TARGET_LEVEL, GATE_THRESHOLD)

time_constant_to_coeff(time_constant_ms, sample_rate) ==
    LET time_constant_samples ==
            F32Mul(F32Div(time_constant_ms, Thousand), sample_rate)
    IN  Powf(E, F32Div(-One, time_constant_samples))

ExponentialPeak_new(sample_rate) ==
    LET attack_coeff  == time_constant_to_coeff(AttackMs, sample_rate)
        release_coeff == time_constant_to_coeff(ReleaseMs, sample_rate)
    IN  [attack_coeff |-> attack_coeff,
         inverse_attack_coeff |-> F32Sub(One, attack_coeff),
         release_coeff |-> release_coeff,
         peak_level |-> Zero]

\* gain_compensation without the gate below GATE_THRESHOLD
gain_compensation_ungated(p, abs_input) ==
    LET peak_level ==
            IF abs_input > p.peak_level
            THEN F32Add(F32Mul(p.attack_coeff, p.peak_level),
                        F32Mul(p.inverse_attack_coeff, abs_input))
            ELSE F32Mul(p.release_coeff, p.peak_level)
    IN  [self |-> [p EXCEPT !.peak_level = peak_level],
         ret  |-> F32Div(TARGET_LEVEL, peak_level)]

\* gain_compensation with the attack input not weighted by 1 - attack_coeff
gain_compensation_unweighted(p, abs_input) ==
    LET peak_level ==
            IF abs_input > p.peak_level
            THEN F32Add(F32Mul(p.attack_coeff, p.peak_level), abs_input)
            ELSE F32Mul(p.release_coeff, p.peak_level)
    IN  [self |-> [p EXCEPT !.peak_level = peak_level],
         ret  |-> IF peak_level < GATE_THRESHOLD
                  THEN GATE_THRESHOLD_RECIPROCAL
                  ELSE F32Div(TARGET_LEVEL, peak_level)]

\* the follower after the call, and the gain the call returns
gain_compensation(p, abs_input) ==
    LET peak_level ==
            IF abs_input > p.peak_level
            THEN F32Add(F32Mul(p.attack_coeff, p.peak_level),
                        F32Mul(p.inverse_attack_coeff, abs_input))
            ELSE F32Mul(p.release_coeff, p.peak_level)
    IN  [self |-> [p EXCEPT !.peak_level = peak_level],
         ret  |-> IF peak_level < GATE_THRESHOLD
                  THEN GATE_THRESHOLD_RECIPROCAL
                  ELSE F32Div(TARGET_LEVEL, peak_level)]

ExponentialPeak_reset(p) == [p EXCEPT !.peak_level = Zero]

\* ----------------------------------------------- InterpolatedBitCrusher
THRESHOLD == 1028443341
THRESHOLD_RECIPROCAL == F32Div(One, THRESHOLD)

InterpolatedBitCrusher_new(sample_rate) ==
    [low |-> BitCrusher_new, high |-> BitCrusher_new, fraction |-> Zero,
     gamma |-> One, gamma_reciprocal |-> One,
     gain |-> One, gain_reciprocal |-> One,
     auto_gain |-> FALSE, symmetric_crush |-> FALSE,
     peak |-> ExponentialPeak_new(sample_rate)]

\* set_depth giving both quantizers the floor of the depth
set_depth_floor_only(self, bit_depth) ==
    LET bit_floor == F32Floor(bit_depth)
    IN  [self EXCEPT
           !.fraction = F32Sub(bit_depth, F32FromInt(bit_floor)),
           !.low  = BitCrusher_set_levels(self.low, Pow2(bit_floor) - 1),
           !.high = BitCrusher_set_levels(self.high, Pow2(bit_floor) - 1)]

set_depth(self, bit_depth) ==
    LET bit_floor == F32Floor(bit_depth)
        bit_ceil  == F32Ceil(bit_depth)
    IN  [self EXCEPT
           !.fraction = F32Sub(bit_depth, F32FromInt(bit_floor)),
           !.low  = BitCrusher_set_levels(self.low, Pow2(bit_floor) - 1),
           !.high = BitCrusher_set_levels(self.high, Pow2(bit_ceil) - 1)]

set_auto_gain(self, auto_gain) == [self EXCEPT !.auto_gain = auto_gain]

set_gain(self, gain, gain_reciprocal) ==
    [self EXCEPT !.gain = gain, !.gain_reciprocal = gain_reciprocal]

set_gamma(self, gamma, gamma_reciprocal) ==
    [self EXCEPT !.gamma = gamma, !.gamma_reciprocal = gamma_reciprocal]

set_steepness(self, steepness, power) ==
    [self EXCEPT !.low  = BitCrusher_set_steepness(self.low, steepness, power),
                 !.high = BitCrusher_set_steepness(self.high, steepness, power)]

set_crush_mode(self, symmetric) == [self EXCEPT !.symmetric_crush = symmetric]

symmetric_quantize(self, gamma_transformed) ==
    LET Interpolated(crushed_high, crushed_low) ==
            F32Add(crushed_low,
                   F32Mul(self.fraction, F32Sub(crushed_high, crushed_low)))
    IN  Interpolated(crush(self.high, gamma_transformed),
                     crush(self.low, gamma_transformed))

asymmetric_quantize(self, sign_input, gamma_transformed) ==
    LET crush_input ==
            F32Mul(F32Add(F32Mul(gamma_transformed, sign_input), One), Half)
        frac == F32Mul(gamma_transformed, THRESHOLD_RECIPROCAL)
        Mapped(quantized) ==
            F32Mul(sign_input, F32Sub(F32Mul(quantized, Two), One))
        Smoothed(quantized) ==
            Mapped(IF gamma_transformed < THRESHOLD
                   THEN F32Add(F32Mul(quantized, frac),
                               F32Mul(crush_input, F32Sub(One, frac)))
                   ELSE quantized)
    IN  Smoothed(symmetric_quantize(self, crush_input))

\* apply running the envelope follower whether or not auto_gain is set
apply_always_follow(self, input) ==
    LET abs_input  == F32Abs(input)
        sign_input == F32Signum(input)
        gc   == gain_compensation(self.peak, abs_input)
        gain == IF self.auto_gain THEN gc.ret ELSE self.gain
        clamped == F32Min(F32Mul(gain, abs_input), One)
        gamma_transformed == Powf(clamped, self.gamma_reciprocal)
        Restored(quantized) ==
            IF self.auto_gain
            THEN F32Div(F32Mul(sign_input, Powf(quantized, self.gamma)), gain)
            ELSE F32Mul(F32Mul(sign_input, self.gain_reciprocal),
                        Powf(quantized, self.gamma))
    IN  [self |-> [self EXCEPT !.peak = gc.self],
         ret  |-> Restored(IF self.symmetric_crush
                           THEN symmetric_quantize(self, gamma_transformed)
                           ELSE asymmetric_quantize(self, sign_input,
                                                    gamma_transformed))]

\* the crusher after the call, and the sample the call returns
apply(self, input) ==
    LET abs_input  == F32Abs(input)
        sign_input == F32Signum(input)
        gc   == gain_compensation(self.peak, abs_input)
        gain == IF self.auto_gain THEN gc.ret ELSE self.gain
        clamped == F32Min(F32Mul(gain, abs_input), One)
        gamma_transformed == Powf(clamped, self.gamma_reciprocal)
        Restored(quantized) ==
            IF self.auto_gain
            THEN F32Div(F32Mul(sign_input, Powf(quantized, self.gamma)), gain)
            ELSE F32Mul(F32Mul(sign_input, self.gain_reciprocal),
                        Powf(quantized, self.gamma))
    IN  [self |-> IF self.auto_gain THEN [self EXCEPT !.peak = gc.self] ELSE self,
         ret  |-> Restored(IF self.symmetric_crush
                           THEN symmetric_quantize(self, gamma_transformed)
                           ELSE asymmetric_quantize(self, sign_input,
                                                    gamma_transformed))]

\* reset rebuilding the whole crusher
InterpolatedBitCrusher_reset_all(self) ==
    InterpolatedBitCrusher_new(DefaultSampleRate)

InterpolatedBitCrusher_reset(self) ==
    [self EXCEPT !.peak = ExponentialPeak_reset(self.peak)]


\* -------------------------------------------------------------- Beverley
EPSILON == 897988541

BeverleyParams_default ==
    [bit_depth |-> DefaultDepth, gamma |-> Zero, smoothing |-> Zero,
     gain_db |-> Zero, auto_gain |-> FALSE, crush_mode |-> FALSE]

Beverley_default ==
    [params |-> BeverleyParams_default,
     crusher_left  |-> InterpolatedBitCrusher_new(DefaultSampleRate),
     crusher_right |-> InterpolatedBitCrusher_new(DefaultSampleRate),
     cached_bit_depth |-> DefaultDepth,
     cached_gamma |-> One,
     cached_smoothing |-> Zero,
     cached_gain_db |-> Zero,
     cached_auto_gain |-> FALSE,
     cached_crush_mode |-> FALSE]

update_crushers_if_changed(self, bit_depth, gamma, smoothing, gain_db, auto_gain, crush_mode) ==
    LET bit_depth_changed ==
            F32Abs(F32Sub(bit_depth, self.cached_bit_depth)) > EPSILON
        gamma_changed ==
            F32Abs(F32Sub(gamma, self.cached_gamma)) > EPSILON
        smoothing_changed ==
            F32Abs(F32Sub(smoothing, self.cached_smoothing)) > EPSILON
        gain_db_changed ==
            F32Abs(F32Sub(gain_db, self.cached_gain_db)) > EPSILON
        auto_gain_changed  == auto_gain # self.cached_auto_gain
        crush_mode_changed == crush_mode # self.cached_crush_mode
        Depth(s) ==
            IF bit_depth_changed
            THEN [s EXCEPT !.crusher_left  = set_depth(@, bit_depth),
                           !.crusher_right = set_depth(@, bit_depth),
                           !.cached_bit_depth = bit_depth]
            ELSE s
        ScaledGamma(s, scaled_gamma, scaled_gamma_reciprocal) ==
            [s EXCEPT
               !.crusher_left  = set_gamma(@, scaled_gamma, scaled_gamma_reciprocal),
               !.crusher_right = set_gamma(@, scaled_gamma, scaled_gamma_reciprocal),
               !.cached_gamma = gamma]
        Gamma(s) ==
            IF gamma_changed
            THEN ScaledGamma(s, Powf(Ten, gamma), F32Div(One, Powf(Ten, gamma)))
            ELSE s
        Steepness(s, steepness) ==
            [s EXCEPT
               !.crusher_left  = set_steepness(@, steepness,
                   F32Div(One, F32Add(F32Sub(One, steepness), Hundredth))),
               !.crusher_right = set_steepness(@, steepness,
                   F32Div(One, F32Add(F32Sub(One, steepness), Hundredth))),
               !.cached_smoothing = smoothing]
        Smoothing(s) ==
            IF smoothing_changed THEN Steepness(s, F32Sub(One, smoothing)) ELSE s
        Gain(s, gain) ==
            [s EXCEPT
               !.crusher_left  = set_gain(@, gain, F32Div(One, gain)),
               !.crusher_right = set_gain(@, gain, F32Div(One, gain)),
               !.cached_gain_db = gain_db]
        GainDb(s) ==
            IF gain_db_changed
            THEN Gain(s, Powf(Ten, F32Mul(gain_db, Twentieth)))
            ELSE s
        AutoGain(s) ==
            IF auto_gain_changed
            THEN [s EXCEPT !.crusher_left  = set_auto_gain(@, auto_gain),
                           !.crusher_right = set_auto_gain(@, auto_gain),
                           !.cached_auto_gain = auto_gain]
            ELSE s
        CrushMode(s) ==
            IF crush_mode_changed
            THEN [s EXCEPT !.crusher_left  = set_crush_mode(@, crush_mode),
                           !.crusher_right = set_crush_mode(@, crush_mode),
                           !.cached_crush_mode = crush_mode]
            ELSE s
    IN  CrushMode(AutoGain(GainDb(Smoothing(Gamma(Depth(self))))))

update_crushers(self) ==
    update_crushers_if_changed(self, self.params.bit_depth, self.params.gamma,
                               self.params.smoothing, self.params.gain_db,
                               self.params.auto_gain, self.params.crush_mode)

initialize(self, sample_rate) ==
    update_crushers([self EXCEPT
        !.crusher_left  = InterpolatedBitCrusher_new(sample_rate),
        !.crusher_right = InterpolatedBitCrusher_new(sample_rate)])

Beverley_reset(self) ==
    [self EXCEPT !.crusher_left  = InterpolatedBitCrusher_reset(@),
                 !.crusher_right = InterpolatedBitCrusher_reset(@)]

\* one pass of the sample loop; frame holds one sample per channel
process_sample(st, frame) ==
    LET u == update_crushers(st.self)
        Mono(l) ==
            [self |-> [u EXCEPT !.crusher_left = l.self],
             out  |-> Append(st.out, <<l.ret>>)]
        Stereo(l, r) ==
            [self |-> [u EXCEPT !.crusher_left = l.self,
                                !.crusher_right = r.self],
             out  |-> Append(st.out, <<l.ret, r.ret>>)]
    IN  IF Len(frame) = 1
        THEN Mono(apply(u.crusher_left, frame[1]))
        ELSE Stereo(apply(u.crusher_left, frame[1]),
                    apply(u.crusher_right, frame[2]))

\* the plugin after the call, and the samples written back to the buffer
RECURSIVE process_from(_, _, _)
process_from(st, buffer, sample_idx) ==
    IF sample_idx > Len(buffer) THEN st
    ELSE process_from(process_sample(st, buffer[sample_idx]), buffer, sample_idx + 1)

process(self, buffer) == process_from([self |-> self, out |-> <<>>], buffer, 1)


\* =================================================================
\* State: one object of each type of the program, and for each the
\* record of the last call made on it.
VARIABLES bc, bcLog, ep, epLog, ibc, ibcLog, plug, plugLog

qvars == <<bc, bcLog>>
pvars == <<ep, epLog>>
cvars == <<ibc, ibcLog>>
hvars == <<plug, plugLog>>
vars == <<bc, bcLog, ep, epLog, ibc, ibcLog, plug, plugLog>>

\* ------------------------------------------------------------- bounds
MaxLevels == 7
SteepDen == 4
QSteepDen == 2
InputDen == 16
MaxCalls == 4
MaxRun == 400
MaxDepth == 3
MaxOps == 3
MaxHostCalls == 3
MaxSamples == 1

NoRet == F32Inf
SampleRates == {DefaultSampleRate, 1194083328}
Fraction(k, den) == F32Div(F32FromInt(k), F32FromInt(den))
Steepnesses == {Fraction(k, SteepDen) : k \in 0..SteepDen}

QuietQ == bc = BitCrusher_new /\ bcLog = <<>>
QuietP == /\ ep = ExponentialPeak_new(DefaultSampleRate)
          /\ epLog = [n |-> 0, ones |-> TRUE, input |-> Zero, ret |-> NoRet,
                      prev_peak |-> Zero, prev_ret |-> NoRet]
QuietC == /\ ibc = InterpolatedBitCrusher_new(DefaultSampleRate)
          /\ ibcLog = [op |-> "new", n |-> 0, input |-> Zero, ret |-> NoRet,
                       depth2 |-> 8, prev_peak |-> Zero]
QuietH == /\ plug = Beverley_default
          /\ plugLog = [op |-> "default", n |-> 0, updated |-> FALSE, out |-> <<>>]

\* ------------------------------------------- BitCrusher on its own
\* bcLog: the crush calls (input, returned value) made since the
\* configuration last changed, the latest two at most.
QInputs == {Fraction(k, bc.levels) : k \in 0..bc.levels}
             \cup {Fraction(k, InputDen) : k \in 0..InputDen}

QSetLevels ==
    \E levels \in 1..MaxLevels :
        /\ bc' = BitCrusher_set_levels(bc, levels)
        /\ bcLog' = <<>>
        /\ UNCHANGED <<pvars, cvars, hvars>>

QSetSteepness ==
    \E steepness \in {Fraction(k, QSteepDen) : k \in 0..QSteepDen} :
        /\ bc' = BitCrusher_set_steepness(bc, steepness, One)
        /\ bcLog' = <<>>
        /\ UNCHANGED <<pvars, cvars, hvars>>

QCrush ==
    \E input \in QInputs :
        /\ bcLog' = (IF bcLog = <<>> THEN <<>> ELSE <<bcLog[Len(bcLog)]>>)
                       \o <<[input |-> input, ret |-> crush(bc, input)]>>
        /\ UNCHANGED <<bc, pvars, cvars, hvars>>

InitQuantizer == QuietQ /\ QuietP /\ QuietC /\ QuietH
NextQuantizer == QSetLevels \/ QSetSteepness \/ QCrush
SpecQuantizer == InitQuantizer /\ [][NextQuantizer]_vars

\* --------------------------------------- ExponentialPeak on its own
\* epLog: n calls of gain_compensation since construction or reset, all of
\* them with input 1.0 iff ones; the last input and returned gain; the peak
\* level and gain before the last call.
AbsInputs == {Zero, Fraction(1, 256), Half, One, F32FromInt(1000)}

PGainCompensation ==
    \E abs_input \in AbsInputs :
        /\ \/ epLog.n < MaxCalls
           \/ abs_input = One /\ epLog.ones /\ epLog.n < MaxRun
        /\ LET Called(r) ==
                   /\ ep' = r.self
                   /\ epLog' = [n |-> epLog.n + 1,
                                ones |-> epLog.ones /\ abs_input = One,
                                input |-> abs_input, ret |-> r.ret,
                                prev_peak |-> ep.peak_level,
                                prev_ret |-> epLog.ret]
           IN  Called(gain_compensation(ep, abs_input))
        /\ UNCHANGED <<qvars, cvars, hvars>>

PReset ==
    /\ ep' = ExponentialPeak_reset(ep)
    /\ epLog' = [n |-> 0, ones |-> TRUE, input |-> Zero, ret |-> NoRet,
                 prev_peak |-> ep.peak_level, prev_ret |-> NoRet]
    /\ UNCHANGED <<qvars, cvars, hvars>>

InitPeak ==
    /\ QuietQ /\ QuietC /\ QuietH
    /\ \E sample_rate \in SampleRates : ep = ExponentialPeak_new(sample_rate)
    /\ epLog = [n |-> 0, ones |-> TRUE, input |-> Zero, ret |-> NoRet,
                prev_peak |-> Zero, prev_ret |-> NoRet]
NextPeak == PGainCompensation \/ PReset
SpecPeak == InitPeak /\ [][NextPeak]_vars

\* --------------------------------------- InterpolatedBitCrusher
\* ibcLog: the last call (op), how many calls were made (n), the sample
\* and the returned sample of the last apply, and twice the bit depth last
\* passed to set_depth (8 before any), and the peak level before the call.
Depths2 == 2..(2 * MaxDepth)
Samples == {-One, -Half, Zero, Fraction(1, 16777216), Half,
            Fraction(15, 16), One}
GainArgs == {<<One, One>>, <<Two, Half>>}
GammaArgs == {<<One, One>>, <<Two, Half>>}

Logged(op, input, ret, depth2) ==
    [op |-> op, n |-> ibcLog.n + 1, input |-> input, ret |-> ret,
     depth2 |-> depth2, prev_peak |-> ibc.peak.peak_level]

CSetDepth ==
    \E d2 \in Depths2 :
        /\ ibcLog.n < MaxOps
        /\ ibc' = set_depth(ibc, Fraction(d2, 2))
        /\ ibcLog' = Logged("set_depth", Zero, NoRet, d2)
        /\ UNCHANGED <<qvars, pvars, hvars>>

CSetAutoGain ==
    \E auto_gain \in BOOLEAN :
        /\ ibcLog.n < MaxOps
        /\ ibc' = set_auto_gain(ibc, auto_gain)
        /\ ibcLog' = Logged("set_auto_gain", Zero, NoRet, ibcLog.depth2)
        /\ UNCHANGED <<qvars, pvars, hvars>>

CSetGain ==
    \E g \in GainArgs :
        /\ ibcLog.n < MaxOps
        /\ ibc' = set_gain(ibc, g[1], g[2])
        /\ ibcLog' = Logged("set_gain", Zero, NoRet, ibcLog.depth2)
        /\ UNCHANGED <<qvars, pvars, hvars>>

CSetGamma ==
    \E g \in GammaArgs :
        /\ ibcLog.n < MaxOps
        /\ ibc' = set_gamma(ibc, g[1], g[2])
        /\ ibcLog' = Logged("set_gamma", Zero, NoRet, ibcLog.depth2)
        /\ UNCHANGED <<qvars, pvars, hvars>>

CSetSteepness ==
    \E steepness \in Steepnesses :
        /\ ibcLog.n < MaxOps
        /\ ibc' = set_steepness(ibc, steepness, One)
        /\ ibcLog' = Logged("set_steepness", Zero, NoRet, ibcLog.depth2)
        /\ UNCHANGED <<qvars, pvars, hvars>>

CSetCrushMode ==
    \E symmetric \in BOOLEAN :
        /\ ibcLog.n < MaxOps
        /\ ibc' = set_crush_mode(ibc, symmetric)
        /\ ibcLog' = Logged("set_crush_mode", Zero, NoRet, ibcLog.depth2)
        /\ UNCHANGED <<qvars, pvars, hvars>>

CApply ==
    \E input \in Samples :
        /\ ibcLog.n < MaxOps
        /\ LET Called(r) ==
                   /\ ibc' = r.self
                   /\ ibcLog' = Logged("apply", input, r.ret, ibcLog.depth2)
           IN  Called(apply(ibc, input))
        /\ UNCHANGED <<qvars, pvars, hvars>>

CReset ==
    /\ ibcLog.n < MaxOps
    /\ ibc' = InterpolatedBitCrusher_reset(ibc)
    /\ ibcLog' = Logged("reset", Zero, NoRet, ibcLog.depth2)
    /\ UNCHANGED <<qvars, pvars, hvars>>

Init ==
    /\ QuietQ /\ QuietP /\ QuietH
    /\ \E sample_rate \in SampleRates :
           ibc = InterpolatedBitCrusher_new(sample_rate)
    /\ ibcLog = [op |-> "new", n |-> 0, input |-> Zero, ret |-> NoRet,
                 depth2 |-> 8, prev_peak |-> Zero]
Next ==
    \/ CSetDepth \/ CSetAutoGain \/ CSetGain \/ CSetGamma
    \/ CSetSteepness \/ CSetCrushMode \/ CApply \/ CReset
Spec == Init /\ [][Next]_vars

\* ------------------------------------------------------- Beverley
\* plugLog: the last call of the host (op), how many calls were made (n),
\* whether that call ran update_crushers, and the samples it wrote back.
HostDepths == {DefaultDepth, Fraction(5, 2)}
HostGammas == {Zero, One}
HostSmoothings == {Zero, Half}
HostGains == {Zero, F32FromInt(20)}
HostSamples == {Zero, One}
Frames == {<<l>> : l \in HostSamples}
            \cup {<<l, r>> : l \in HostSamples, r \in HostSamples}
Buffers == UNION {[1..len -> Frames] : len \in 0..MaxSamples}

HLogged(op, updated, out) ==
    [op |-> op, n |-> plugLog.n + 1, updated |-> updated, out |-> out]

HSetParam ==
    /\ plugLog.n < MaxHostCalls
    /\ \E p \in [bit_depth : HostDepths, gamma : HostGammas,
                 smoothing : HostSmoothings, gain_db : HostGains,
                 auto_gain : BOOLEAN, crush_mode : BOOLEAN] :
           /\ Cardinality({f \in DOMAIN p : p[f] # plug.params[f]}) = 1
           /\ plug' = [plug EXCEPT !.params = p]
    /\ plugLog' = HLogged("set_param", FALSE, <<>>)
    /\ UNCHANGED <<qvars, pvars, cvars>>

HInitialize ==
    \E sample_rate \in SampleRates :
        /\ plugLog.n < MaxHostCalls
        /\ plug' = initialize(plug, sample_rate)
        /\ plugLog' = HLogged("initialize", TRUE, <<>>)
        /\ UNCHANGED <<qvars, pvars, cvars>>

HReset ==
    /\ plugLog.n < MaxHostCalls
    /\ plug' = Beverley_reset(plug)
    /\ plugLog' = HLogged("reset", FALSE, <<>>)
    /\ UNCHANGED <<qvars, pvars, cvars>>

HProcess ==
    \E buffer \in Buffers :
        /\ plugLog.n < MaxHostCalls
        /\ \A i \in DOMAIN buffer : Len(buffer[i]) = Len(buffer[1])
        /\ LET Called(r) ==
                   /\ plug' = r.self
                   /\ plugLog' = HLogged("process", Len(buffer) > 0, r.out)
           IN  Called(process(plug, buffer))
        /\ UNCHANGED <<qvars, pvars, cvars>>

InitHost == QuietQ /\ QuietP /\ QuietC /\ QuietH
NextHost == HSetParam \/ HInitialize \/ HReset \/ HProcess
SpecHost == InitHost /\ [][NextHost]_vars

\* =================================================================
\* Claims

\* C1: after any sequence of gain_compensation calls with inputs >= 0 and
\* reset calls on a freshly constructed follower, peak_level is never
\* negative and every returned gain is strictly positive and at most 200.
C1_PeakAndGainBounded ==
    /\ ep.peak_level >= Zero
    /\ epLog.n > 0 => (epLog.ret > Zero /\ epLog.ret <= F32FromInt(200))
\* a call that left a positive peak level under the gate and returned 200
C1_Witness ==
    /\ epLog.n > 1
    /\ ep.peak_level > Zero /\ ep.peak_level < GATE_THRESHOLD
    /\ epLog.ret = F32FromInt(200)

\* C2: in a run of gain_compensation(1.0) calls from peak_level 0, the peak
\* level never falls and never exceeds 1.0, the gain never rises and never
\* falls below 1.0, and every call takes the attack branch.
C2_RunOfOnesMonotone ==
    (epLog.ones /\ epLog.n >= 1) =>
        /\ epLog.prev_peak < One
        /\ ep.peak_level >= epLog.prev_peak
        /\ ep.peak_level <= One
        /\ epLog.ret >= One
        /\ epLog.n >= 2 => epLog.ret <= epLog.prev_ret
\* the hundredth and later calls of such a run, the level still rising
C2_Witness ==
    /\ epLog.ones /\ epLog.n >= 100
    /\ ep.peak_level > epLog.prev_peak
    /\ epLog.ret < epLog.prev_ret

\* C3: for every level count N, every k in 0..N and every steepness,
\* crush(k/N) returns exactly k/N.
C3_GridPointsFixed ==
    \A i \in DOMAIN bcLog : \A k \in 0..bc.levels :
        bcLog[i].input = Fraction(k, bc.levels)
            => bcLog[i].ret = Fraction(k, bc.levels)

\* C4: for a fixed configuration with steepness in [0,1], crush is
\* monotonic non-decreasing on [0,1] and its result stays within [0,1].
C4_MonotoneInUnitRange ==
    /\ \A i \in DOMAIN bcLog : bcLog[i].ret >= Zero /\ bcLog[i].ret <= One
    /\ \A i, j \in DOMAIN bcLog :
           bcLog[i].input <= bcLog[j].input => bcLog[i].ret <= bcLog[j].ret

\* C5: InterpolatedBitCrusher::reset sets peak_level to 0 and leaves every
\* configuration field as it was.
C5_ResetClearsOnlyPeak ==
    [][ibcLog'.op = "reset" =>
          /\ ibc'.peak.peak_level = Zero
          /\ [ibc' EXCEPT !.peak.peak_level = Zero]
               = [ibc EXCEPT !.peak.peak_level = Zero]]_vars
\* a reset of a reconfigured crusher whose follower had risen
C5_Witness ==
    /\ ibcLog.op = "reset"
    /\ ibcLog.prev_peak > Zero
    /\ ibc.auto_gain

\* C6: with auto_gain off, symmetric mode, unit gamma and gain and an
\* integer bit depth b, apply(x) for x in [-1,1] lies within one
\* quantization step 1/(2^b - 1) of x, for every steepness in [0,1].
C6_Premise ==
    /\ ibcLog.op = "apply"
    /\ ~ibc.auto_gain /\ ibc.symmetric_crush
    /\ ibc.gamma = One /\ ibc.gamma_reciprocal = One
    /\ ibc.gain = One /\ ibc.gain_reciprocal = One
    /\ ibcLog.depth2 % 2 = 0
    /\ ibc.low.steepness >= Zero /\ ibc.low.steepness <= One
    /\ F32Abs(ibcLog.input) <= One
C6_WithinOneStep ==
    C6_Premise =>
        F32Abs(F32Sub(ibcLog.ret, ibcLog.input))
            <= F32Div(One, F32FromInt(2 ^ (ibcLog.depth2 \div 2) - 1))
\* a negative sample moved off its value by hard quantization
C6_Witness ==
    /\ C6_Premise
    /\ ibc.low.steepness = One
    /\ ibcLog.input < Zero
    /\ ibcLog.ret # ibcLog.input

\* C7: with unit gain and gamma, auto_gain off, asymmetric mode and
\* steepness 1.0, apply(x) for 0 < |x| <= 1 is nonzero, has the sign of x
\* and magnitude at most 1; at depth 4, apply(0.5) is strictly inside (0,1).
C7_Premise ==
    /\ ibcLog.op = "apply"
    /\ ~ibc.auto_gain /\ ~ibc.symmetric_crush
    /\ ibc.gamma = One /\ ibc.gamma_reciprocal = One
    /\ ibc.gain = One /\ ibc.gain_reciprocal = One
    /\ ibc.low.steepness = One /\ ibc.high.steepness = One
    /\ ibcLog.input # Zero /\ F32Abs(ibcLog.input) <= One
C7_SignKeptWithinUnit ==
    C7_Premise =>
        /\ ibcLog.ret # Zero
        /\ (ibcLog.ret > Zero) = (ibcLog.input > Zero)
        /\ F32Abs(ibcLog.ret) <= One
        /\ (ibcLog.depth2 = 8 /\ ibcLog.input = Half) =>
               (ibcLog.ret > Zero /\ ibcLog.ret < One)

\* C8: the two quantizers and the blend fraction always agree with the
\* depth d last set (4 if none): low.levels = 2^floor(d) - 1,
\* high.levels = 2^ceil(d) - 1, fraction = d - floor(d) in [0,1), and
\* 1 <= low.levels <= high.levels.
C8_DepthConsistent ==
    /\ ibc.low.levels = 2 ^ (ibcLog.depth2 \div 2) - 1
    /\ ibc.high.levels = 2 ^ ((ibcLog.depth2 + 1) \div 2) - 1
    /\ ibc.fraction = Fraction(ibcLog.depth2 % 2, 2)
    /\ ibc.fraction >= Zero /\ ibc.fraction < One
    /\ 1 <= ibc.low.levels /\ ibc.low.levels <= ibc.high.levels
\* a fractional depth, still in force after a later call
C8_Witness ==
    /\ ibcLog.depth2 % 2 = 1
    /\ ibcLog.op = "apply"
    /\ ibc.low.levels < ibc.high.levels

\* C9: after initialize and after every update_crushers call, both
\* crushers hold the configuration derived from the current parameters.
HeldConfig(c) ==
    [low_levels |-> c.low.levels, high_levels |-> c.high.levels,
     fraction |-> c.fraction,
     gamma |-> c.gamma, gamma_reciprocal |-> c.gamma_reciprocal,
     low_steepness |-> c.low.steepness, high_steepness |-> c.high.steepness,
     gain |-> c.gain, gain_reciprocal |-> c.gain_reciprocal,
     auto_gain |-> c.auto_gain, symmetric_crush |-> c.symmetric_crush]
DerivedConfig(p) ==
    HeldConfig(
        set_crush_mode(
        set_auto_gain(
        set_gain(
        set_steepness(
        set_gamma(
        set_depth(InterpolatedBitCrusher_new(DefaultSampleRate), p.bit_depth),
            Powf(Ten, p.gamma), F32Div(One, Powf(Ten, p.gamma))),
            F32Sub(One, p.smoothing), One),
            Powf(Ten, F32Mul(p.gain_db, Twentieth)),
            F32Div(One, Powf(Ten, F32Mul(p.gain_db, Twentieth)))),
            p.auto_gain),
            p.crush_mode))
C9_CacheCoherent ==
    plugLog.updated =>
        /\ HeldConfig(plug.crusher_left) = DerivedConfig(plug.params)
        /\ HeldConfig(plug.crusher_right) = DerivedConfig(plug.params)

\* C10: peak_level is changed only by apply with auto_gain set and by
\* reset: apply with auto_gain off leaves the whole crusher unchanged and
\* returns what it returns whatever the peak level, and no setter changes
\* the follower.
Setters == {"set_depth", "set_gain", "set_gamma", "set_steepness",
            "set_auto_gain", "set_crush_mode"}
C10_PeakFrame ==
    [][/\ (ibcLog'.op = "apply" /\ ~ibc.auto_gain) =>
              /\ ibc' = ibc
              /\ ibcLog'.ret =
                     apply(InterpolatedBitCrusher_reset(ibc), ibcLog'.input).ret
       /\ ibcLog'.op \in Setters => ibc'.peak = ibc.peak
       /\ ibc'.peak.peak_level # ibc.peak.peak_level =>
              \/ ibcLog'.op = "apply" /\ ibc.auto_gain
              \/ ibcLog'.op = "reset"]_vars
\* an apply with auto_gain off, made after the configuration was changed
C10_Witness ==
    /\ ibcLog.op = "apply"
    /\ ~ibc.auto_gain
    /\ ibcLog.n = MaxOps
    /\ ibcLog.input # Zero
    /\ ibc.symmetric_crush
====
